---- MODULE Spec2Model ----
(***************************************************************************)
(* Model of the trade matching and aggregation engine of journal.py:       *)
(* import_etrade_csv, calculate_round_trips (FIFO matcher),                *)
(* calculate_daily_summary, show_trades, set_trade_setup, add_trade_note.  *)
(*                                                                         *)
(* Money is kept exact.  Amounts and commissions are integer cents; every  *)
(* value the code derives by dividing by a quantity (amount / quantity,    *)
(* commission / quantity) is kept as an integer number of 1/Scale cents,   *)
(* Scale being a common multiple of every quantity of the model.  Ratios   *)
(* (pnl_percent, win_rate, averages, profit_factor) are kept as a          *)
(* numerator and a denominator.                                            *)
(***************************************************************************)
EXTENDS Integers, Sequences, FiniteSets, TLC

VARIABLES
    buys, sells, trips, summary, mpc,   \* the matcher and aggregator applied to one group
    executions, round_trips, daily_summary,   \* the three tables (committed content)
    last_import,                        \* what the last import_etrade_csv printed / returned
    file, imported_before,              \* a source file imported again and again
    wpc, wdates, wcur, wpending, wtxn, wstart, wresult,  \* an import in progress on its connection
    rpc, rdate, rsummary, rtrips, rduring     \* a show_trades call on another connection

vars == <<buys, sells, trips, summary, mpc, executions, round_trips, daily_summary,
          last_import, file, imported_before, wpc, wdates, wcur, wpending, wtxn,
          wstart, wresult, rpc, rdate, rsummary, rtrips, rduring>>

matchVars == <<buys, sells, trips, summary, mpc>>
dbVars == <<executions, round_trips, daily_summary, last_import>>
fileVars == <<file, imported_before>>
writerVars == <<wpc, wdates, wcur, wpending, wtxn, wstart, wresult>>
readerVars == <<rpc, rdate, rsummary, rtrips, rduring>>
connVars == <<file, imported_before, wpc, wdates, wcur, wpending, wtxn, wstart, wresult,
              rpc, rdate, rsummary, rtrips, rduring>>

----------------------------------------------------------------------------
\* Bounds of the model.

MaxQty == 4
MaxFills == 4

\* Program constants.
Multiplier == 100
DeadBand == 100
Epsilon == 1

Min(a, b) == IF a < b THEN a ELSE b
Abs(x) == IF x < 0 THEN 0 - x ELSE x

RECURSIVE Gcd(_, _)
Gcd(a, b) == IF b = 0 THEN a ELSE Gcd(b, a % b)

RECURSIVE LcmUpTo(_)
LcmUpTo(n) == IF n <= 1 THEN 1 ELSE LET l == LcmUpTo(n - 1) IN (l * n) \div Gcd(l, n)

\* Number of sub-units of a cent: x / quantity is exact for every quantity.
Scale == LcmUpTo(MaxQty)

\* A plausible slip: integer division (amount // quantity).
PerUnitFloor(x, quantity) == (x \div quantity) * Scale

\* amount / quantity and commission / quantity (journal.py 217-218, 223-224).
PerUnit(x, quantity) == (x * Scale) \div quantity

NULL == "NULL"

----------------------------------------------------------------------------
\* calculate_round_trips, lines 213-255: the FIFO matching of one group.
\* buys and sells are the rows of the two SELECTs, in id order.  A position of
\* the matcher is [buy_idx, buy_remaining, buy_price, buy_amount_per,
\* buy_comm_per, out]; out holds the rows inserted so far, each with the
\* positions (buy_idx, sell_idx) of the two fills it was cut from.

LoadBuy(buys_, i, out) ==
    [buy_idx |-> i,
     buy_remaining |-> buys_[i].quantity,
     buy_price |-> buys_[i].price,
     buy_amount_per |-> PerUnit(buys_[i].amount, buys_[i].quantity),
     buy_comm_per |-> PerUnit(buys_[i].commission, buys_[i].quantity),
     out |-> out]

PnlPercent(sell_price, buy_price) ==
    IF buy_price # 0 THEN [num |-> (sell_price - buy_price) * 100, den |-> buy_price]
    ELSE [num |-> 0, den |-> 1]

MakeTrip(st, sell, si, match_qty) ==
    LET sell_amount_per == PerUnit(sell.amount, sell.quantity)
        sell_comm_per == PerUnit(sell.commission, sell.quantity)
    IN  [quantity |-> match_qty,
         entry_price |-> st.buy_price,
         exit_price |-> sell.price,
         entry_amount |-> Abs(st.buy_amount_per * match_qty),
         exit_amount |-> sell_amount_per * match_qty,
         gross_pnl |-> (sell.price - st.buy_price) * match_qty * Multiplier,
         net_pnl |-> (sell_amount_per * match_qty) + (st.buy_amount_per * match_qty),
         commission_total |-> (st.buy_comm_per + sell_comm_per) * match_qty,
         pnl_percent |-> PnlPercent(sell.price, st.buy_price),
         buy_idx |-> st.buy_idx,
         sell_idx |-> si]

\* A plausible slip: the cursor moves on but the price of the first buy is kept.
AdvanceBuyStalePrice(buys_, st, buy_remaining, out) ==
    IF buy_remaining <= 0
    THEN IF st.buy_idx + 1 <= Len(buys_)
         THEN [LoadBuy(buys_, st.buy_idx + 1, out) EXCEPT !.buy_price = st.buy_price]
         ELSE [st EXCEPT !.buy_idx = st.buy_idx + 1, !.buy_remaining = buy_remaining,
                         !.out = out]
    ELSE [st EXCEPT !.buy_remaining = buy_remaining, !.out = out]

\* Lines 249-255: move to the next buy once the current one is used up.
AdvanceBuy(buys_, st, buy_remaining, out) ==
    IF buy_remaining <= 0
    THEN IF st.buy_idx + 1 <= Len(buys_)
         THEN LoadBuy(buys_, st.buy_idx + 1, out)
         ELSE [st EXCEPT !.buy_idx = st.buy_idx + 1, !.buy_remaining = buy_remaining,
                         !.out = out]
    ELSE [st EXCEPT !.buy_remaining = buy_remaining, !.out = out]

\* A plausible slip: the whole remaining quantity of the sell is matched.
MatchQtyAll(remaining, buy_remaining) == remaining

\* Line 227.
MatchQty(remaining, buy_remaining) == Min(remaining, buy_remaining)

\* Lines 226-255: the while loop for one sell.
RECURSIVE MatchSell(_, _, _, _, _)
MatchSell(buys_, sell, si, remaining, st) ==
    IF ~(remaining > 0 /\ st.buy_idx <= Len(buys_)) THEN st
    ELSE LET match_qty == MatchQty(remaining, st.buy_remaining)
             out == IF match_qty > 0
                    THEN Append(st.out, MakeTrip(st, sell, si, match_qty))
                    ELSE st.out
         IN  MatchSell(buys_, sell, si, remaining - match_qty,
                       AdvanceBuy(buys_, st, st.buy_remaining - match_qty, out))

\* Lines 220-225: the for loop over the sells.
RECURSIVE MatchSells(_, _, _, _)
MatchSells(buys_, sells_, si, st) ==
    IF si > Len(sells_) THEN st
    ELSE MatchSells(buys_, sells_, si + 1,
                    MatchSell(buys_, sells_[si], si, sells_[si].quantity, st))

\* Lines 210-255.
FifoMatch(buys_, sells_) ==
    IF buys_ = <<>> \/ sells_ = <<>> THEN <<>>
    ELSE MatchSells(buys_, sells_, 1, LoadBuy(buys_, 1, <<>>)).out

----------------------------------------------------------------------------
\* calculate_daily_summary, lines 264-292, over the round trips of one date.
\* An SQL aggregate is <<>> when it is NULL and <<v>> otherwise.

RECURSIVE SumSeq(_)
SumSeq(s) == IF s = <<>> THEN 0 ELSE s[1] + SumSeq(Tail(s))

RECURSIVE MaxSeq(_)
MaxSeq(s) == IF Len(s) = 1 THEN s[1]
             ELSE LET m == MaxSeq(Tail(s)) IN IF s[1] > m THEN s[1] ELSE m

RECURSIVE MinSeq(_)
MinSeq(s) == IF Len(s) = 1 THEN s[1]
             ELSE LET m == MinSeq(Tail(s)) IN IF s[1] < m THEN s[1] ELSE m

NetPnls(rts) == [i \in 1..Len(rts) |-> rts[i].net_pnl]

SqlSum(s) == IF s = <<>> THEN <<>> ELSE <<SumSeq(s)>>
SqlAvg(s) == IF s = <<>> THEN <<>> ELSE <<[num |-> SumSeq(s), den |-> Len(s)]>>

\* Python's `x or d` on a fetched aggregate: None and 0 are both falsy.
PyOr(x, d) == IF x = <<>> THEN d ELSE IF x[1] = 0 THEN d ELSE x[1]

IsWinner(p) == p > DeadBand * Scale
IsLoser(p) == p < 0 - DeadBand * Scale
IsScratch(p) == p >= 0 - DeadBand * Scale /\ p <= DeadBand * Scale
IsPositive(p) == p > 0
IsNegative(p) == p < 0

\* Line 286: SELECT SUM(net_pnl) ... AND net_pnl > 0.
GrossWins(pnls) == PyOr(SqlSum(SelectSeq(pnls, IsPositive)), 0)

\* A plausible slip: no epsilon (`or 0`).
GrossLossesNoEpsilon(pnls) ==
    LET s == SqlSum(SelectSeq(pnls, IsNegative))
    IN  PyOr(IF s = <<>> THEN <<>> ELSE <<Abs(s[1])>>, 0)

\* Line 288-289: SELECT ABS(SUM(net_pnl)) ... AND net_pnl < 0, or 0.01.
GrossLosses(pnls) ==
    LET s == SqlSum(SelectSeq(pnls, IsNegative))
    IN  PyOr(IF s = <<>> THEN <<>> ELSE <<Abs(s[1])>>, Epsilon * Scale)

\* Line 290.
ProfitFactor(pnls) ==
    IF GrossLosses(pnls) > 0
    THEN [num |-> GrossWins(pnls), den |-> GrossLosses(pnls)]
    ELSE [num |-> 0, den |-> 1]

\* Lines 264-303: the row written for a date with at least one round trip.
SummaryRow(rts) ==
    LET pnls == NetPnls(rts)
        total == Len(rts)
        winners == Len(SelectSeq(pnls, IsWinner))
    IN  [total_trades |-> total,
         winners |-> winners,
         losers |-> Len(SelectSeq(pnls, IsLoser)),
         scratches |-> Len(SelectSeq(pnls, IsScratch)),
         win_rate |-> [num |-> winners * 100, den |-> total],
         gross_pnl |-> SumSeq([i \in 1..Len(rts) |-> rts[i].gross_pnl]),
         commissions |-> SumSeq([i \in 1..Len(rts) |-> rts[i].commission_total]),
         net_pnl |-> SumSeq(pnls),
         largest_win |-> MaxSeq(pnls),
         largest_loss |-> MinSeq(pnls),
         avg_winner |-> SqlAvg(SelectSeq(pnls, IsPositive)),
         avg_loser |-> SqlAvg(SelectSeq(pnls, IsNegative)),
         avg_trade |-> [num |-> SumSeq(pnls), den |-> total],
         profit_factor |-> ProfitFactor(pnls)]

----------------------------------------------------------------------------
\* The matcher and the aggregator applied to one (date, contract) group.

Quantities == 1..MaxQty

\* The fills a group is drawn from: any quantity, and two price / amount /
\* commission variants per side (cents).
BuyFills == [quantity : Quantities, price : {100}, amount : {-200}, commission : {6}]
            \cup [quantity : Quantities, price : {120}, amount : {-350}, commission : {0}]
SellFills == [quantity : Quantities, price : {150}, amount : {300}, commission : {4}]
             \cup [quantity : Quantities, price : {90}, amount : {250}, commission : {1}]

NoSummary == <<>>

InitDb ==
    /\ executions = <<>>
    /\ round_trips = <<>>
    /\ daily_summary = <<>>
    /\ last_import = [imported |-> 0, skipped |-> 0]

InitWriter ==
    /\ wpc = "idle"
    /\ wdates = {}
    /\ wcur = <<>>
    /\ wpending = <<>>
    /\ wtxn = <<>>
    /\ wstart = <<>>
    /\ wresult = [imported |-> 0, skipped |-> 0]

InitReader ==
    /\ rpc = "idle"
    /\ rdate = <<>>
    /\ rsummary = <<>>
    /\ rtrips = <<>>
    /\ rduring = FALSE

InitConn ==
    /\ file = <<>>
    /\ imported_before = FALSE
    /\ InitWriter
    /\ InitReader

InitMatch ==
    /\ \E nb \in 0..MaxFills : \E ns \in 0..(MaxFills - nb) :
          /\ buys \in [1..nb -> BuyFills]
          /\ sells \in [1..ns -> SellFills]
    /\ trips = <<>>
    /\ summary = NoSummary
    /\ mpc = "input"
    /\ InitDb
    /\ InitConn

\* calculate_round_trips on the group, then calculate_daily_summary on its result.
Recompute ==
    /\ mpc = "input"
    /\ mpc' = "done"
    /\ trips' = FifoMatch(buys, sells)
    /\ summary' = IF trips' = <<>> THEN summary ELSE <<SummaryRow(trips')>>
    /\ UNCHANGED <<buys, sells>>
    /\ UNCHANGED dbVars
    /\ UNCHANGED connVars

NextMatch == Recompute

SpecMatch == InitMatch /\ [][NextMatch]_vars

----------------------------------------------------------------------------
\* The source file and its rows.  A row is what csv.DictReader yields: every
\* field is text.  TransactionDate is kept as its '/'-separated parts.

\* int(text): the texts of the model that are integers, and their values.
IntText == ("1" :> 1) @@ ("2" :> 2) @@ ("-1" :> -1) @@ ("02" :> 2) @@ ("05" :> 5)
           @@ ("06" :> 6) @@ ("26" :> 26) @@ ("2026" :> 2026)

\* float(text): the texts of the model that are decimal numbers, in cents.
FloatText == ("1.00" :> 100) @@ ("1.50" :> 150) @@ ("-2.00" :> -200) @@ ("-3.50" :> -350)
             @@ ("3.00" :> 300) @@ ("0.06" :> 6) @@ ("0.04" :> 4)

\* re.match(r'([A-Z]+)-*(\d{6})([CP])(\d{8})'), lines 59-78: the symbols of the
\* model that are OCC option symbols, parsed; <<>> is None.
ParseOccSymbol(symbol) ==
    IF symbol = "QQQ---260205C00609000"
    THEN <<[underlying |-> "QQQ", expiration |-> <<2026, 2, 5>>,
            option_type |-> "Call", strike |-> 609000]>>
    ELSE <<>>

\* Lines 83-88; <<>> is a raised ValueError.
ParseTradeDate(parts) ==
    IF Len(parts) # 3 THEN <<>>
    ELSE IF \E i \in 1..3 : parts[i] \notin DOMAIN IntText THEN <<>>
    ELSE LET month == IntText[parts[1]]
             day == IntText[parts[2]]
             year == IF IntText[parts[3]] < 100 THEN 2000 + IntText[parts[3]]
                     ELSE IntText[parts[3]]
         IN  <<(<<year, month, day>>)>>

\* Lines 147-150 raise when a numeric field is not a number.
NumericOk(row) ==
    /\ row.Quantity \in DOMAIN IntText
    /\ row.Price \in DOMAIN FloatText
    /\ row.Amount \in DOMAIN FloatText
    /\ row.Commission \in DOMAIN FloatText

\* Lines 139-150: the values bound to the INSERT.
ExecutionOf(row, trade_date, parsed) ==
    [date |-> trade_date,
     transaction_type |-> row.TransactionType,
     symbol |-> row.Symbol,
     underlying |-> parsed.underlying,
     expiration |-> parsed.expiration,
     strike |-> parsed.strike,
     option_type |-> parsed.option_type,
     quantity |-> Abs(IntText[row.Quantity]),
     price |-> FloatText[row.Price],
     amount |-> FloatText[row.Amount],
     commission |-> FloatText[row.Commission]]

\* The natural key of the executions table (a UNIQUE constraint of schema.sql).
NaturalKey(e) ==
    <<e.date, e.transaction_type, e.symbol, e.quantity, e.price, e.amount, e.commission>>

\* INSERT OR IGNORE: whether the row is ignored.
IsDuplicate(execs, e) == \E i \in 1..Len(execs) : NaturalKey(execs[i]) = NaturalKey(e)

\* Lines 115-162: one turn of the loop over the rows.
ImportRow(acc, row) ==
    IF row.TransactionDate = <<"">> THEN acc
    ELSE LET d == ParseTradeDate(row.TransactionDate) IN
         IF d = <<>> THEN acc
         ELSE LET acc1 == [acc EXCEPT !.dates_affected = @ \cup {d[1]}]
                  parsed == ParseOccSymbol(row.Symbol)
              IN  IF parsed = <<>> THEN acc1
                  ELSE IF ~NumericOk(row) THEN acc1
                  ELSE LET e == ExecutionOf(row, d[1], parsed[1]) IN
                       IF IsDuplicate(acc1.executions, e)
                       THEN [acc1 EXCEPT !.skipped = @ + 1]
                       ELSE [acc1 EXCEPT !.executions = Append(@, e), !.imported = @ + 1]

\* Lines 111-164: the loop, from the stored executions.
RECURSIVE ImportRowsFrom(_, _, _)
ImportRowsFrom(rows, i, acc) ==
    IF i > Len(rows) THEN acc
    ELSE ImportRowsFrom(rows, i + 1, ImportRow(acc, rows[i]))

ImportRows(rows, execs) ==
    ImportRowsFrom(rows, 1, [executions |-> execs, imported |-> 0, skipped |-> 0,
                             dates_affected |-> {}])

----------------------------------------------------------------------------
\* calculate_round_trips over the tables.

ContractOf(e) ==
    [underlying |-> e.underlying, expiration |-> e.expiration,
     strike |-> e.strike, option_type |-> e.option_type]

\* Lines 185-189: SELECT DISTINCT ..., in the order of first appearance.
RECURSIVE DistinctContracts(_, _, _, _)
DistinctContracts(execs, trade_date, i, acc) ==
    IF i > Len(execs) THEN acc
    ELSE LET c == ContractOf(execs[i])
             seen == \E j \in 1..Len(acc) : acc[j] = c
         IN  DistinctContracts(execs, trade_date, i + 1,
                 IF execs[i].date = trade_date /\ ~seen THEN Append(acc, c) ELSE acc)

\* Lines 195-208: the fills of one kind of a contract on a date, ORDER BY id.
RECURSIVE SelectFills(_, _, _, _, _)
SelectFills(execs, trade_date, contract, transaction_type, i) ==
    IF i > Len(execs) THEN <<>>
    ELSE LET e == execs[i]
             rest == SelectFills(execs, trade_date, contract, transaction_type, i + 1)
         IN  IF /\ e.date = trade_date
                /\ ContractOf(e) = contract
                /\ e.transaction_type = transaction_type
             THEN <<[id |-> i, quantity |-> e.quantity, price |-> e.price,
                     amount |-> e.amount, commission |-> e.commission]>> \o rest
             ELSE rest

\* Lines 235-244: the row inserted for one match; its id is given on insertion.
RoundTripRow(trade_date, contract, t) ==
    [id |-> 0,
     date |-> trade_date,
     underlying |-> contract.underlying,
     expiration |-> contract.expiration,
     strike |-> contract.strike,
     option_type |-> contract.option_type,
     direction |-> "Long",
     quantity |-> t.quantity,
     entry_price |-> t.entry_price,
     exit_price |-> t.exit_price,
     entry_amount |-> t.entry_amount,
     exit_amount |-> t.exit_amount,
     gross_pnl |-> t.gross_pnl,
     net_pnl |-> t.net_pnl,
     commission_total |-> t.commission_total,
     pnl_percent |-> t.pnl_percent,
     setup_type |-> NULL,
     notes |-> NULL]

\* The rows inserted for the matches of one contract, in order.
RoundTripRows(trade_date, contract, ts) ==
    [k \in 1..Len(ts) |-> RoundTripRow(trade_date, contract, ts[k])]

\* Lines 191-255: the rows inserted for a date, in order.
RECURSIVE MatchContracts(_, _, _, _)
MatchContracts(execs, trade_date, contracts, i) ==
    IF i > Len(contracts) THEN <<>>
    ELSE RoundTripRows(trade_date, contracts[i],
                       FifoMatch(SelectFills(execs, trade_date, contracts[i], "Bought", 1),
                                 SelectFills(execs, trade_date, contracts[i], "Sold", 1)))
         \o MatchContracts(execs, trade_date, contracts, i + 1)

MatchDate(execs, trade_date) ==
    MatchContracts(execs, trade_date, DistinctContracts(execs, trade_date, 1, <<>>), 1)

\* The id of an inserted round trip (INTEGER PRIMARY KEY: largest id plus one).
NextRowId(rts) ==
    IF rts = <<>> THEN 1
    ELSE MaxSeq([i \in 1..Len(rts) |-> rts[i].id]) + 1

InsertTrip(rts, row) == Append(rts, [row EXCEPT !.id = NextRowId(rts)])

RECURSIVE InsertTrips(_, _, _)
InsertTrips(rts, rows, i) ==
    IF i > Len(rows) THEN rts ELSE InsertTrips(InsertTrip(rts, rows[i]), rows, i + 1)

\* A plausible slip: the old round trips of the date are kept.
DeleteDateNothing(rts, trade_date) == rts

\* Line 182: DELETE FROM round_trips WHERE date = ?.
DeleteDate(rts, trade_date) == SelectSeq(rts, LAMBDA r : r.date # trade_date)

TripsOfDate(rts, trade_date) == SelectSeq(rts, LAMBDA r : r.date = trade_date)

\* Lines 177-257.
CalculateRoundTrips(execs, rts, trade_date) ==
    InsertTrips(DeleteDate(rts, trade_date), MatchDate(execs, trade_date), 1)

\* A plausible slip: a date without round trips gets a zero-filled row.
CalculateDailySummaryZeroFill(rts, ds, trade_date) ==
    LET rows == TripsOfDate(rts, trade_date)
        row == IF rows = <<>> THEN [total_trades |-> 0] ELSE SummaryRow(rows)
    IN  [d \in DOMAIN ds \cup {trade_date} |-> IF d = trade_date THEN row ELSE ds[d]]

\* Lines 260-305: INSERT OR REPLACE of the row of the date, or nothing at all
\* when the date has no round trip.
CalculateDailySummary(rts, ds, trade_date) ==
    LET rows == TripsOfDate(rts, trade_date) IN
    IF rows = <<>> THEN ds
    ELSE [d \in DOMAIN ds \cup {trade_date} |->
             IF d = trade_date THEN SummaryRow(rows) ELSE ds[d]]

\* Lines 167-169 for the dates in a given order.
RECURSIVE RecomputeDates(_, _, _, _, _)
RecomputeDates(execs, rts, ds, order, i) ==
    IF i > Len(order) THEN [round_trips |-> rts, daily_summary |-> ds]
    ELSE LET rts1 == CalculateRoundTrips(execs, rts, order[i])
         IN  RecomputeDates(execs, rts1, CalculateDailySummary(rts1, ds, order[i]),
                            order, i + 1)

\* The orders in which a set may be iterated.
Orders(S) == {o \in [1..Cardinality(S) -> S] : \A i, j \in 1..Cardinality(S) :
                                                       i # j => o[i] # o[j]}

----------------------------------------------------------------------------
\* The source files of the model.

MaxBatch == 2
MaxFileRows == 3

OptionSymbol == "QQQ---260205C00609000"

RawRow(date, type, symbol, quantity, price, amount, commission) ==
    [TransactionDate |-> date, TransactionType |-> type, Symbol |-> symbol,
     Quantity |-> quantity, Price |-> price, Amount |-> amount, Commission |-> commission]

Day1 == <<"02", "05", "26">>
Day1LongYear == <<"02", "05", "2026">>
Day2 == <<"02", "06", "26">>

\* Fills of the option: three on the first day, one or two on the second.
Day1Rows ==
    { RawRow(Day1, "Bought", OptionSymbol, "2", "1.00", "-2.00", "0.06"),
      RawRow(Day1, "Sold", OptionSymbol, "-1", "1.50", "3.00", "0.04"),
      RawRow(Day1, "Sold", OptionSymbol, "2", "1.50", "3.00", "0.04") }
Day2Bought == RawRow(Day2, "Bought", OptionSymbol, "1", "1.00", "-3.50", "0.06")
Day2Sold == RawRow(Day2, "Sold", OptionSymbol, "1", "1.50", "3.00", "0.04")

\* The same fill as the second row of the first day, written differently.
AliasRow == RawRow(Day1LongYear, "Sold", OptionSymbol, "1", "1.50", "3.00", "0.04")

\* A date that is not MM/DD/YY, a date with a part that is not a number, a
\* quantity that is not a number.
BadDateRow == RawRow(<<"2026-02-05">>, "Bought", OptionSymbol, "1", "1.00", "-2.00", "0.06")
BadDayRow == RawRow(<<"02", "xx", "26">>, "Sold", OptionSymbol, "1", "1.50", "3.00", "0.04")
BadQuantityRow == RawRow(Day2, "Bought", OptionSymbol, "n/a", "1.00", "-2.00", "0.06")

\* A stock trade and a row without date.
StockRow == RawRow(Day1, "Bought", "AAPL", "1", "1.00", "-2.00", "0.06")
BlankRow == RawRow(<<"">>, "", "", "", "", "", "")

\* The rows of the files imported one after the other.
JournalRows == Day1Rows \cup {Day2Bought, StockRow}

\* The rows of a file imported again and again.
RawRows == Day1Rows \cup {Day2Bought, Day2Sold, AliasRow, BadDateRow, BadDayRow,
                          BadQuantityRow, StockRow, BlankRow}

BatchesOf(rows, n) == UNION {[1..k -> rows] : k \in 1..n}

AllDates == {<<2026, 2, 5>>, <<2026, 2, 6>>}

SetupTypes == {"breakout"}
Notes == {"late entry"}

----------------------------------------------------------------------------
\* The commands, each run from start to end.

\* import_etrade_csv, lines 91-174, of a file with its header row.
Import(f) ==
    \E r \in {ImportRows(f, executions)} :
    \E order \in Orders(r.dates_affected) :
    \E after \in {RecomputeDates(r.executions, round_trips, daily_summary, order, 1)} :
        /\ executions' = r.executions
        /\ round_trips' = after.round_trips
        /\ daily_summary' = after.daily_summary
        /\ last_import' = [imported |-> r.imported, skipped |-> r.skipped]

\* Lines 437, 453: UPDATE round_trips SET <column> = ? WHERE id = ?.
UpdateTrip(rts, trade_id, column, value) ==
    [i \in 1..Len(rts) |-> IF rts[i].id = trade_id
                           THEN [rts[i] EXCEPT ![column] = value] ELSE rts[i]]

\* set_trade_setup, lines 432-445.
SetTradeSetup(trade_id, setup_type) ==
    /\ round_trips' = UpdateTrip(round_trips, trade_id, "setup_type", setup_type)
    /\ UNCHANGED <<executions, daily_summary, last_import>>

\* add_trade_note, lines 448-461.
AddTradeNote(trade_id, note) ==
    /\ round_trips' = UpdateTrip(round_trips, trade_id, "notes", note)
    /\ UNCHANGED <<executions, daily_summary, last_import>>

TradeIds == 1..(Len(round_trips) + 1)

ImportAny ==
    /\ \E f \in BatchesOf(JournalRows, MaxBatch) : Import(f)
    /\ UNCHANGED <<matchVars, connVars>>

Tag ==
    /\ \E id \in TradeIds : \E s \in SetupTypes : SetTradeSetup(id, s)
    /\ UNCHANGED <<matchVars, connVars>>

Note ==
    /\ \E id \in TradeIds : \E n \in Notes : AddTradeNote(id, n)
    /\ UNCHANGED <<matchVars, connVars>>

InitIdle ==
    /\ buys = <<>>
    /\ sells = <<>>
    /\ trips = <<>>
    /\ summary = NoSummary
    /\ mpc = "idle"

Init ==
    /\ InitIdle
    /\ InitDb
    /\ InitConn

Next ==
    \/ ImportAny
    \/ Tag
    \/ Note

Spec == Init /\ [][Next]_vars

----------------------------------------------------------------------------
\* One source file, imported again and again, with tagging in between.

InitFile ==
    /\ InitIdle
    /\ InitDb
    /\ file \in BatchesOf(RawRows, MaxFileRows)
    /\ imported_before = FALSE
    /\ InitWriter
    /\ InitReader

ImportFile ==
    /\ Import(file)
    /\ imported_before' = TRUE
    /\ UNCHANGED <<file, matchVars, writerVars, readerVars>>

NextFile ==
    \/ ImportFile
    \/ Tag
    \/ Note

SpecFile == InitFile /\ [][NextFile]_vars



----------------------------------------------------------------------------
\* An import and a report on two connections.  The importing connection runs
\* import_etrade_csv statement by statement: its DELETE and INSERTs on
\* round_trips belong to one transaction (wtxn is the table as that connection
\* sees it) and reach the committed table at conn.commit(), line 257.  The
\* report reads the committed tables, one SELECT at a time.

\* A plausible slip: a connection in autocommit mode, the DELETE visible at once.
VisibleAfterDeleteAutocommit(committed, txn) == txn

\* Line 182: what other connections see of round_trips once the DELETE has run.
VisibleAfterDelete(committed, txn) == committed

\* Lines 96-164: the rows are inserted and committed.
WStart(f) ==
    /\ wpc = "idle"
    /\ LET r == ImportRows(f, executions) IN
          /\ executions' = r.executions
          /\ wstart' = executions
          /\ wdates' = r.dates_affected
          /\ wresult' = [imported |-> r.imported, skipped |-> r.skipped]
    /\ wpc' = "recalc"
    /\ UNCHANGED <<round_trips, daily_summary, last_import, wcur, wpending, wtxn>>
    /\ UNCHANGED <<matchVars, fileVars, readerVars>>

\* Lines 167-208: the next affected date; its round trips are deleted and its
\* fills read, inside the transaction.
WDelete ==
    /\ wpc = "recalc"
    /\ \E d \in wdates :
          /\ wcur' = <<d>>
          /\ wtxn' = DeleteDate(round_trips, d)
          /\ wpending' = MatchDate(executions, d)
    /\ round_trips' = VisibleAfterDelete(round_trips, wtxn')
    /\ wpc' = "insert"
    /\ UNCHANGED <<executions, daily_summary, last_import, wdates, wstart, wresult>>
    /\ UNCHANGED <<matchVars, fileVars, readerVars>>

\* Lines 235-244: one INSERT, inside the transaction.
WInsert ==
    /\ wpc = "insert"
    /\ wpending # <<>>
    /\ wtxn' = InsertTrip(wtxn, Head(wpending))
    /\ wpending' = Tail(wpending)
    /\ UNCHANGED <<executions, round_trips, daily_summary, last_import,
                   wpc, wdates, wcur, wstart, wresult>>
    /\ UNCHANGED <<matchVars, fileVars, readerVars>>

\* Line 257: conn.commit().
WCommit ==
    /\ wpc = "insert"
    /\ wpending = <<>>
    /\ round_trips' = wtxn
    /\ wpc' = "summary"
    /\ UNCHANGED <<executions, daily_summary, last_import,
                   wdates, wcur, wpending, wtxn, wstart, wresult>>
    /\ UNCHANGED <<matchVars, fileVars, readerVars>>

\* Line 169: calculate_daily_summary of the date, committed at line 305.
WSummary ==
    /\ wpc = "summary"
    /\ daily_summary' = CalculateDailySummary(round_trips, daily_summary, wcur[1])
    /\ wdates' = wdates \ {wcur[1]}
    /\ wpc' = "recalc"
    /\ UNCHANGED <<executions, round_trips, last_import, wcur, wpending, wtxn,
                   wstart, wresult>>
    /\ UNCHANGED <<matchVars, fileVars, readerVars>>

\* Lines 171-174: every affected date is done.
WFinish ==
    /\ wpc = "recalc"
    /\ wdates = {}
    /\ last_import' = wresult
    /\ wstart' = executions
    /\ wcur' = <<>>
    /\ wtxn' = <<>>
    /\ wpc' = "idle"
    /\ UNCHANGED <<executions, round_trips, daily_summary, wdates, wpending, wresult>>
    /\ UNCHANGED <<matchVars, fileVars, readerVars>>

\* show_trades, lines 314-319: the summary of the date is read.
RSummary(d) ==
    /\ rpc = "idle"
    /\ rdate' = <<d>>
    /\ rsummary' = IF d \in DOMAIN daily_summary THEN <<daily_summary[d]>> ELSE <<>>
    /\ rpc' = IF d \in DOMAIN daily_summary THEN "trips" ELSE "done"
    /\ UNCHANGED <<rtrips, rduring>>
    /\ UNCHANGED <<matchVars, fileVars, writerVars, dbVars>>

\* show_trades, lines 325-331: the round trips of the date are read.  rduring
\* tells whether the import was then between its DELETE and its commit for
\* that date.
RTrips ==
    /\ rpc = "trips"
    /\ rtrips' = TripsOfDate(round_trips, rdate[1])
    /\ rduring' = (wpc = "insert" /\ wcur = rdate)
    /\ rpc' = "done"
    /\ UNCHANGED <<rdate, rsummary>>
    /\ UNCHANGED <<matchVars, fileVars, writerVars, dbVars>>

\* show_trades returns.
RReturn ==
    /\ rpc = "done"
    /\ rpc' = "idle"
    /\ rdate' = <<>>
    /\ rsummary' = <<>>
    /\ rtrips' = <<>>
    /\ rduring' = FALSE
    /\ UNCHANGED <<matchVars, fileVars, writerVars, dbVars>>

ImportStart == \E f \in BatchesOf(JournalRows, MaxBatch) : WStart(f)

ReportStart == \E d \in AllDates : RSummary(d)

NextConc ==
    \/ ImportStart
    \/ WDelete
    \/ WInsert
    \/ WCommit
    \/ WSummary
    \/ WFinish
    \/ ReportStart
    \/ RTrips
    \/ RReturn

SpecConc == Init /\ [][NextConc]_vars

----------------------------------------------------------------------------
\* Properties of the tables (checked under Spec and SpecFile).

\* A round trip without its surrogate id.
Content(rts) == [i \in 1..Len(rts) |-> [rts[i] EXCEPT !.id = 0]]

RecomputeDay(execs, rts, ds, trade_date) ==
    RecomputeDates(execs, rts, ds, <<trade_date>>, 1)

\* C4: idempotence of recompute. From any stored state, recomputing a date a
\* second time leaves the round trips (ids aside) and the daily summaries as
\* the first recompute left them.
C4_RecomputeIdempotent ==
    \A d \in AllDates :
        LET once == RecomputeDay(executions, round_trips, daily_summary, d)
            twice == RecomputeDay(executions, once.round_trips, once.daily_summary, d)
        IN  /\ Content(twice.round_trips) = Content(once.round_trips)
            /\ twice.daily_summary = once.daily_summary

\* A date with two stored round trips, one of them tagged, and its summary.
C4_Witness ==
    \E d \in AllDates :
        /\ Len(TripsOfDate(round_trips, d)) = 2
        /\ \E i \in 1..Len(round_trips) : round_trips[i].setup_type # NULL
        /\ d \in DOMAIN daily_summary

\* C8: a daily summary is present exactly for the dates with a stored round
\* trip, and its counts and net P/L are those of the stored round trips.
C8_SummaryDerived ==
    \A d \in AllDates :
        LET rows == TripsOfDate(round_trips, d)
            n(P(_)) == Cardinality({i \in 1..Len(rows) : P(rows[i].net_pnl)})
        IN  /\ d \in DOMAIN daily_summary <=> rows # <<>>
            /\ d \in DOMAIN daily_summary =>
                  /\ daily_summary[d].total_trades = Len(rows)
                  /\ daily_summary[d].winners = n(IsWinner)
                  /\ daily_summary[d].losers = n(IsLoser)
                  /\ daily_summary[d].scratches = n(IsScratch)
                  /\ daily_summary[d].net_pnl = SumSeq(NetPnls(rows))

\* A date with two round trips and its summary, and a date with an execution,
\* no round trip and no summary.
C8_Witness ==
    /\ \E d \in AllDates : /\ d \in DOMAIN daily_summary
                           /\ daily_summary[d].total_trades = 2
                           /\ daily_summary[d].winners = 1
    /\ \E d \in AllDates : /\ d \notin DOMAIN daily_summary
                           /\ \E i \in 1..Len(executions) : executions[i].date = d

\* Whether a row fails to parse: its date (line 120) or, once the symbol is
\* that of an option, one of its numeric fields (lines 147-150).
DateFails(row) == row.TransactionDate # <<"">> /\ ParseTradeDate(row.TransactionDate) = <<>>
NumberFails(row) ==
    /\ row.TransactionDate # <<"">>
    /\ ParseTradeDate(row.TransactionDate) # <<>>
    /\ ParseOccSymbol(row.Symbol) # <<>>
    /\ ~NumericOk(row)
Normalizes(row) ==
    /\ row.TransactionDate # <<"">>
    /\ ParseTradeDate(row.TransactionDate) # <<>>
    /\ ParseOccSymbol(row.Symbol) # <<>>
    /\ NumericOk(row)
RowCount(f, P(_)) == Cardinality({i \in 1..Len(f) : P(f[i])})

\* C5 as stated: an import inserts every row that parses, skips the others
\* without aborting, and reports the number of rows it skipped (those that
\* failed to parse, and the duplicates).
C5_SkipAndCount ==
    [][Import(file) =>
          /\ \A i \in 1..Len(file) : Normalizes(file[i]) =>
                IsDuplicate(executions',
                            ExecutionOf(file[i], ParseTradeDate(file[i].TransactionDate)[1],
                                        ParseOccSymbol(file[i].Symbol)[1]))
          /\ last_import'.imported = Len(executions') - Len(executions)
          /\ last_import'.skipped =
                RowCount(file, DateFails) + RowCount(file, NumberFails)
                + (RowCount(file, Normalizes) - last_import'.imported)]_vars

\* C7 as stated: importing the file again inserts nothing and leaves the
\* executions, the round trips (ids aside, setup and notes included) and the
\* daily summaries as they were.
C7_ReimportNoOp ==
    [][(imported_before /\ Import(file)) =>
          /\ last_import'.imported = 0
          /\ executions' = executions
          /\ Content(round_trips') = Content(round_trips)
          /\ daily_summary' = daily_summary]_vars


----------------------------------------------------------------------------
\* Properties of a report running beside an import (checked under SpecConc).

\* The round trips of a date as derived from a list of executions, ids aside.
DerivedTrips(execs, trade_date) == Content(MatchDate(execs, trade_date))

\* C9: report isolation. The round trips a report reads for its date, having
\* found the date's summary, are never the empty set left by the DELETE and
\* never a part of the regenerated set: they are the whole set derived from
\* the executions as they were before the import or as they are now.
C9_ReportIsolation ==
    [][RTrips =>
          /\ rtrips' # <<>>
          /\ Content(rtrips') \in {DerivedTrips(wstart, rdate[1]),
                                   DerivedTrips(executions, rdate[1])}]_vars

\* A report has read the round trips of its date while the import had deleted
\* them in its transaction and inserted none of the new ones yet.
C9_Witness ==
    /\ rpc = "done"
    /\ rduring
    /\ rtrips # <<>>
    /\ wpc = "insert"
    /\ wcur = rdate
    /\ TripsOfDate(wtxn, rdate[1]) = <<>>
    /\ Len(wpending) = 2

----------------------------------------------------------------------------
\* Properties of the matcher and the aggregator (checked under SpecMatch).

Qtys(fills) == [i \in 1..Len(fills) |-> fills[i].quantity]
TotalQty(fills) == SumSeq(Qtys(fills))
MatchedTotal == SumSeq(Qtys(trips))

\* Matched quantity over the round trips cut from buy i / from sell i.
MatchedOfBuy(i) ==
    SumSeq([k \in 1..Len(trips) |-> IF trips[k].buy_idx = i THEN trips[k].quantity ELSE 0])
MatchedOfSell(i) ==
    SumSeq([k \in 1..Len(trips) |-> IF trips[k].sell_idx = i THEN trips[k].quantity ELSE 0])

\* The same, over the round trips emitted before the k-th.
MatchedOfBuyBefore(i, k) ==
    SumSeq([j \in 1..(k - 1) |-> IF trips[j].buy_idx = i THEN trips[j].quantity ELSE 0])
MatchedOfSellBefore(i, k) ==
    SumSeq([j \in 1..(k - 1) |-> IF trips[j].sell_idx = i THEN trips[j].quantity ELSE 0])

Balanced == TotalQty(buys) = TotalQty(sells)

TripWithinFills ==
    \A k \in 1..Len(trips) :
        /\ trips[k].quantity > 0
        /\ trips[k].quantity <= buys[trips[k].buy_idx].quantity
        /\ trips[k].quantity <= sells[trips[k].sell_idx].quantity

\* C1: quantity conservation. The matched quantity of a group never exceeds
\* the group's total Bought quantity nor its total Sold quantity.
C1_QuantityConservation ==
    mpc = "done" =>
        /\ MatchedTotal <= TotalQty(buys)
        /\ MatchedTotal <= TotalQty(sells)

\* A group with several round trips and excess left unmatched on the buy side.
C1_Witness ==
    /\ mpc = "done"
    /\ Len(trips) >= 2
    /\ MatchedTotal < TotalQty(buys)
    /\ MatchedTotal = TotalQty(sells)

\* C2 as stated: every fill of the group is fully consumed by the round trips
\* cut from it, and every round trip is positive and within both its fills.
C2_FullConsumption ==
    mpc = "done" =>
        /\ \A i \in 1..Len(buys) : MatchedOfBuy(i) = buys[i].quantity
        /\ \A i \in 1..Len(sells) : MatchedOfSell(i) = sells[i].quantity
        /\ TripWithinFills

\* C2 amended: no fill is consumed beyond its quantity; every fill is fully
\* consumed when the group's Bought and Sold totals are equal; every round trip
\* is positive and within both its fills.
C2_ConsumptionAmended ==
    mpc = "done" =>
        /\ \A i \in 1..Len(buys) : MatchedOfBuy(i) <= buys[i].quantity
        /\ \A i \in 1..Len(sells) : MatchedOfSell(i) <= sells[i].quantity
        /\ Balanced =>
              /\ \A i \in 1..Len(buys) : MatchedOfBuy(i) = buys[i].quantity
              /\ \A i \in 1..Len(sells) : MatchedOfSell(i) = sells[i].quantity
        /\ TripWithinFills

\* A balanced group whose fills are split, and an unbalanced one, both occur;
\* this is the balanced one with a split sell and a split buy.
C2_Witness ==
    /\ mpc = "done"
    /\ Balanced
    /\ Len(buys) = 2 /\ Len(sells) = 2
    /\ Len(trips) = 3

\* C3: FIFO order. Round trips are emitted in non-decreasing order of close and
\* of open; an open (a close) is used only when every earlier open (close) is
\* used up; entry and exit prices are those of the fills matched; and the
\* example of the specification gives exactly its two round trips.
C3_FifoOrder ==
    mpc = "done" =>
        /\ \A k \in 1..(Len(trips) - 1) :
              /\ trips[k].sell_idx <= trips[k + 1].sell_idx
              /\ trips[k].buy_idx <= trips[k + 1].buy_idx
        /\ \A k \in 1..Len(trips) :
              /\ \A j \in 1..(trips[k].buy_idx - 1) :
                    MatchedOfBuyBefore(j, k) = buys[j].quantity
              /\ \A j \in 1..(trips[k].sell_idx - 1) :
                    MatchedOfSellBefore(j, k) = sells[j].quantity
              /\ trips[k].entry_price = buys[trips[k].buy_idx].price
              /\ trips[k].exit_price = sells[trips[k].sell_idx].price
              /\ trips[k].quantity =
                    Min(buys[trips[k].buy_idx].quantity - MatchedOfBuyBefore(trips[k].buy_idx, k),
                        sells[trips[k].sell_idx].quantity - MatchedOfSellBefore(trips[k].sell_idx, k))
        /\ (/\ Len(buys) = 2 /\ Len(sells) = 1
            /\ buys[1].quantity = 2 /\ buys[1].price = 100
            /\ buys[2].quantity = 3 /\ buys[2].price = 120
            /\ sells[1].quantity = 4 /\ sells[1].price = 150)
           => /\ Len(trips) = 2
              /\ trips[1].quantity = 2 /\ trips[1].entry_price = 100 /\ trips[1].exit_price = 150
              /\ trips[2].quantity = 2 /\ trips[2].entry_price = 120 /\ trips[2].exit_price = 150
              /\ MatchedOfBuy(2) = buys[2].quantity - 1

\* The example of the specification, matched.
C3_Witness ==
    /\ mpc = "done"
    /\ Len(buys) = 2 /\ Len(sells) = 1
    /\ buys[1].quantity = 2 /\ buys[1].price = 100
    /\ buys[2].quantity = 3 /\ buys[2].price = 120
    /\ sells[1].quantity = 4 /\ sells[1].price = 150
    /\ Len(trips) = 2

\* C10: cash conservation. For a group whose Bought and Sold totals are equal,
\* the net P/L of the round trips adds up to the signed amounts of the fills and
\* their commission to the commissions of the fills (in 1/Scale cents).
C10_CashConservation ==
    (mpc = "done" /\ Balanced) =>
        /\ SumSeq(NetPnls(trips)) =
              Scale * (SumSeq([i \in 1..Len(buys) |-> buys[i].amount])
                       + SumSeq([i \in 1..Len(sells) |-> sells[i].amount]))
        /\ SumSeq([k \in 1..Len(trips) |-> trips[k].commission_total]) =
              Scale * (SumSeq([i \in 1..Len(buys) |-> buys[i].commission])
                       + SumSeq([i \in 1..Len(sells) |-> sells[i].commission]))

\* A balanced group in which a fill of quantity 3 is split over two round trips.
C10_Witness ==
    /\ mpc = "done"
    /\ Balanced
    /\ Len(trips) >= 3
    /\ \E i \in 1..Len(buys) : buys[i].quantity = 3 /\ MatchedOfBuy(i) = 3
                               /\ \E k \in 1..Len(trips) :
                                      trips[k].buy_idx = i /\ trips[k].quantity < 3

\* C6 as stated: profit_factor is the net P/L of the winners of the deadband
\* rule over max(epsilon, |net P/L of its losers|).
WinnerSum == SumSeq(SelectSeq(NetPnls(trips), IsWinner))
LoserSum == Abs(SumSeq(SelectSeq(NetPnls(trips), IsLoser)))
PositiveSum == SumSeq(SelectSeq(NetPnls(trips), IsPositive))
NegativeSum == Abs(SumSeq(SelectSeq(NetPnls(trips), IsNegative)))
====
